---- MODULE Spec2Model ----
(***************************************************************************)
(* The content aggregation layer of the blog (src/src/utils/data.ts):      *)
(* getPublishedBlogs, getCategoriesWithBlogs and getTagsWithBlogs over the *)
(* "blog" and "category" content collections.                             *)
(*                                                                         *)
(* A string that the code inspects character by character (a tag, which    *)
(* becomes a property key of a JavaScript object) is a sequence of         *)
(* one-character strings.  A date is its time value, an integer.  The      *)
(* blog schema and the validation of raw frontmatter records are modelled   *)
(* too, with the content sync that fills the blog collection.               *)
(***************************************************************************)
EXTENDS Integers, Sequences, FiniteSets, TLC

VARIABLES blogCollection, categoryCollection, call, returned, history,
          pending, build, frames

vars == <<blogCollection, categoryCollection, call, returned, history,
          pending, build, frames>>

----------------------------------------------------------------------------
(* Bounds of the model *)

MaxPosts == 2
MaxDate == 2
MaxCalls == 3
MaxInFlight == 2

----------------------------------------------------------------------------
(* src/src/consts.ts *)

CATEGORIES_SCRATCH_LAST ==
    << [id |-> "tech", slug |-> "tech", name |-> "Tech"],
       [id |-> "design", slug |-> "design", name |-> "Design"],
       [id |-> "scratch", slug |-> "scratch", name |-> "Scratch"] >>

BLOG_CATEGORIES ==
    << [id |-> "tech", slug |-> "tech", name |-> "Tech"],
       [id |-> "scratch", slug |-> "scratch", name |-> "Scratch"],
       [id |-> "design", slug |-> "design", name |-> "Design"] >>

----------------------------------------------------------------------------
(* Tag strings *)

TagJs == <<"j", "s">>
TagJS == <<"J", "S">>
TagCss == <<"c", "s", "s">>
Tag2 == <<"2">>
Tag10 == <<"1", "0">>
Tag01 == <<"0", "1">>
TagConstructor == <<"c", "o", "n", "s", "t", "r", "u", "c", "t", "o", "r">>
TagProto == <<"_", "_", "p", "r", "o", "t", "o", "_", "_">>
TagToString == <<"t", "o", "S", "t", "r", "i", "n", "g">>
TagValueOf == <<"v", "a", "l", "u", "e", "O", "f">>
TagHasOwnProperty ==
    <<"h", "a", "s", "O", "w", "n", "P", "r", "o", "p", "e", "r", "t", "y">>

----------------------------------------------------------------------------
(* lodash orderBy, as called by getPublishedBlogs *)

compareAscending(value, other) ==
    IF value > other THEN 1
    ELSE IF value < other THEN -1
    ELSE 0

sortOrdersAscending == <<"asc">>

sortOrders == <<"desc">>

compareMultipleUnstable(object, other, orders) ==
    LET result == compareAscending(object.criteria, other.criteria)
    IN  IF result # 0
        THEN result * (IF orders[1] = "desc" THEN -1 ELSE 1)
        ELSE (object.index - other.index)
                 * (IF orders[1] = "desc" THEN -1 ELSE 1)

compareMultiple(object, other, orders) ==
    LET result == compareAscending(object.criteria, other.criteria)
    IN  IF result # 0
        THEN result * (IF orders[1] = "desc" THEN -1 ELSE 1)
        ELSE object.index - other.index

RECURSIVE insertSorted(_, _, _)
insertSorted(sorted, x, orders) ==
    IF sorted = <<>> THEN <<x>>
    ELSE IF compareMultiple(x, Head(sorted), orders) < 0
         THEN <<x>> \o sorted
         ELSE <<Head(sorted)>> \o insertSorted(Tail(sorted), x, orders)

RECURSIVE baseSortBy(_, _)
baseSortBy(array, orders) ==
    IF array = <<>> THEN <<>>
    ELSE insertSorted(baseSortBy(SubSeq(array, 1, Len(array) - 1), orders),
                      array[Len(array)], orders)

pubDateOf(blog) == blog.data.pubDate

(* As if posts of one date were one post *)
orderByOnePerDate(collection, orders) ==
    LET criteria == [i \in 1..Len(collection) |->
                        [criteria |-> pubDateOf(collection[i]),
                         index |-> i - 1,
                         value |-> collection[i]]]
        firstOfDate(e) ==
            \A m \in 1..e.index : criteria[m].criteria # e.criteria
        result == baseSortBy(SelectSeq(criteria, firstOfDate), orders)
    IN  [i \in 1..Len(result) |-> result[i].value]

orderBy(collection, orders) ==
    LET criteria == [i \in 1..Len(collection) |->
                        [criteria |-> pubDateOf(collection[i]),
                         index |-> i - 1,
                         value |-> collection[i]]]
        result == baseSortBy(criteria, orders)
    IN  [i \in 1..Len(result) |-> result[i].value]

----------------------------------------------------------------------------
(* getPublishedBlogs *)

keepEveryBlog(blog) == TRUE

notDraft(blog) == ~blog.data.isDraft

getPublishedBlogs(blogs) ==
    orderBy(SelectSeq(blogs, notDraft), sortOrders)

(* As if the drafts were removed from, and the rest sorted in, the array    *)
(* that was read from the collection                                        *)
blogsFilteredAndSortedInPlace(blogs) ==
    orderBy(SelectSeq(blogs, notDraft), sortOrders)

(* The array read from the collection, once getPublishedBlogs has returned: *)
(* blogs.filter and _.orderBy each build a new array and leave their        *)
(* argument as it is.                                                       *)
blogsAfterGetPublishedBlogs(blogs) == blogs

----------------------------------------------------------------------------
(* getCategoriesWithBlogs *)

anyCategory(blog, category) == TRUE

otherCategory(blog, category) == blog.data.category.id # category.id

ofCategory(blog, category) == blog.data.category.id = category.id

nonEmptyCategoriesWithBlogs(blogs, categories) ==
    LET all == [i \in 1..Len(categories) |->
                   [category |-> categories[i],
                    blogs |-> SelectSeq(blogs,
                                  LAMBDA blog : ofCategory(blog, categories[i]))]]
    IN  SelectSeq(all, LAMBDA group : group.blogs # <<>>)

(* As if a post of an unknown category fell into the first group *)
firstGroupTakesUnknown(blogs, categories) ==
    [i \in 1..Len(categories) |->
        [category |-> categories[i],
         blogs |-> SelectSeq(blogs,
                       LAMBDA blog :
                           \/ ofCategory(blog, categories[i])
                           \/ /\ i = 1
                              /\ \A k \in 1..Len(categories) :
                                     ~ofCategory(blog, categories[k]))]]

getCategoriesWithBlogs(blogs, categories) ==
    [i \in 1..Len(categories) |->
        [category |-> categories[i],
         blogs |-> SelectSeq(blogs,
                       LAMBDA blog : ofCategory(blog, categories[i]))]]

----------------------------------------------------------------------------
(* The tagMap object of getTagsWithBlogs: a plain JavaScript object.  Its   *)
(* own properties are kept in creation order; a key it does not own is      *)
(* looked up on Object.prototype.                                           *)

ObjectPrototypeKeys ==
    {TagConstructor, TagProto, TagToString, TagValueOf, TagHasOwnProperty}

Digits == {"0", "1", "2", "3", "4", "5", "6", "7", "8", "9"}

digitValue(c) ==
    CASE c = "0" -> 0 [] c = "1" -> 1 [] c = "2" -> 2 [] c = "3" -> 3
      [] c = "4" -> 4 [] c = "5" -> 5 [] c = "6" -> 6 [] c = "7" -> 7
      [] c = "8" -> 8 [] c = "9" -> 9

(* An array index is the canonical decimal form of an integer in           *)
(* 0 .. 2^32 - 2; the keys of the model have at most nine digits.           *)
isArrayIndex(key) ==
    /\ Len(key) >= 1
    /\ Len(key) <= 9
    /\ \A i \in 1..Len(key) : key[i] \in Digits
    /\ (Len(key) = 1 \/ key[1] # "0")

RECURSIVE toNumber(_)
toNumber(key) ==
    IF key = <<>> THEN 0
    ELSE 10 * toNumber(SubSeq(key, 1, Len(key) - 1)) + digitValue(key[Len(key)])

hasOwn(tagMap, tag) == \E i \in 1..Len(tagMap) : tagMap[i].key = tag

ownIndex(tagMap, tag) == CHOOSE i \in 1..Len(tagMap) : tagMap[i].key = tag

tagMapGet(tagMap, tag) ==
    IF hasOwn(tagMap, tag)
    THEN [type |-> "array", blogs |-> tagMap[ownIndex(tagMap, tag)].value]
    ELSE IF tag \in ObjectPrototypeKeys
         THEN [type |-> "inherited"]
         ELSE [type |-> "undefined"]

truthy(v) == v.type # "undefined"

(* As if every assignment made a new key *)
tagMapSetNewKey(tagMap, tag, blogs) ==
    Append(tagMap, [key |-> tag, value |-> blogs])

tagMapSet(tagMap, tag, blogs) ==
    IF hasOwn(tagMap, tag)
    THEN [tagMap EXCEPT ![ownIndex(tagMap, tag)].value = blogs]
    ELSE Append(tagMap, [key |-> tag, value |-> blogs])

unshift(array, blog) == <<blog>> \o array

(* As if a post were put into a bucket once *)
pushOnce(array, blog) ==
    IF array # <<>> /\ array[Len(array)] = blog THEN array
    ELSE Append(array, blog)

push(array, blog) == Append(array, blog)

(* if (!tagMap[tag]) { tagMap[tag] = []; }  tagMap[tag].push(blog); *)
addBlogToTag(state, tag, blog) ==
    IF state.threw THEN state
    ELSE LET created == IF ~truthy(tagMapGet(state.tagMap, tag))
                        THEN tagMapSet(state.tagMap, tag, <<>>)
                        ELSE state.tagMap
             target == tagMapGet(created, tag)
         IN  IF target.type = "array"
             THEN [tagMap |-> tagMapSet(created, tag, push(target.blogs, blog)),
                   threw |-> FALSE]
             ELSE [tagMap |-> created, threw |-> TRUE]

(* As if the posts without a tag had a tag of their own *)
tagsOrUntagged(blog) ==
    IF "tags" \in DOMAIN blog.data /\ blog.data.tags # <<>>
    THEN blog.data.tags
    ELSE << <<"u", "n", "t", "a", "g", "g", "e", "d">> >>

(* blog.data.tags ?? [] *)
tagsOf(blog) ==
    IF "tags" \in DOMAIN blog.data THEN blog.data.tags ELSE <<>>

RECURSIVE forEachTag(_, _, _)
forEachTag(state, tags, blog) ==
    IF tags = <<>> THEN state
    ELSE forEachTag(addBlogToTag(state, Head(tags), blog), Tail(tags), blog)

RECURSIVE forEachBlog(_, _)
forEachBlog(state, blogs) ==
    IF blogs = <<>> THEN state
    ELSE forEachBlog(forEachTag(state, tagsOf(Head(blogs)), Head(blogs)),
                     Tail(blogs))

(* Object.entries: the array-index keys in ascending numeric order, then    *)
(* the other string keys in creation order.                                 *)
RECURSIVE insertIndexKey(_, _)
insertIndexKey(sorted, entry) ==
    IF sorted = <<>> THEN <<entry>>
    ELSE IF toNumber(entry.key) < toNumber(Head(sorted).key)
         THEN <<entry>> \o sorted
         ELSE <<Head(sorted)>> \o insertIndexKey(Tail(sorted), entry)

RECURSIVE sortIndexKeys(_)
sortIndexKeys(entries) ==
    IF entries = <<>> THEN <<>>
    ELSE insertIndexKey(sortIndexKeys(Tail(entries)), Head(entries))

ObjectEntries(tagMap) ==
    sortIndexKeys(SelectSeq(tagMap, LAMBDA e : isArrayIndex(e.key)))
        \o SelectSeq(tagMap, LAMBDA e : ~isArrayIndex(e.key))

(* The tagMap a call would start from if the object outlived the call *)
tagMapLeftByLastCall ==
    IF call = "getTagsWithBlogs" /\ returned.status = "fulfilled"
    THEN [i \in 1..Len(returned.value) |->
             [key |-> returned.value[i].tag, value |-> returned.value[i].blogs]]
    ELSE <<>>

(* const tagMap = {}: a new object in every call *)
newTagMap == <<>>

(* As if a call without any bucket returned no value *)
getTagsWithBlogsOrNothing(blogs) ==
    LET final == forEachBlog([tagMap |-> newTagMap, threw |-> FALSE], blogs)
        entries == ObjectEntries(final.tagMap)
    IN  IF final.threw
        THEN [status |-> "rejected", reason |-> "TypeError"]
        ELSE IF entries = <<>>
        THEN [status |-> "fulfilled"]
        ELSE [status |-> "fulfilled",
              value |-> [i \in 1..Len(entries) |->
                            [tag |-> entries[i].key, blogs |-> entries[i].value]]]

getTagsWithBlogs(blogs) ==
    LET final == forEachBlog([tagMap |-> newTagMap, threw |-> FALSE], blogs)
        entries == ObjectEntries(final.tagMap)
    IN  IF final.threw
        THEN [status |-> "rejected", reason |-> "TypeError"]
        ELSE [status |-> "fulfilled",
              value |-> [i \in 1..Len(entries) |->
                            [tag |-> entries[i].key, blogs |-> entries[i].value]]]

----------------------------------------------------------------------------
(* JavaScript values of a raw frontmatter record.  A field the record lacks *)
(* reads as undefined.  A time value counts days since 1970-01-01 UTC: the  *)
(* model has no instants within a day.                                      *)

Undefined == [t |-> "undefined"]
Null == [t |-> "null"]
Str(v) == [t |-> "string", string |-> v]
Num(v) == [t |-> "number", number |-> v]
Bool(v) == [t |-> "boolean", boolean |-> v]
DateValue(v) == [t |-> "date", time |-> v]
Arr(v) == [t |-> "array", items |-> v]

InvalidDate == [valid |-> FALSE]

ValidDate(time) == [valid |-> TRUE, time |-> time]

(* Days from 1970-01-01 to the civil date year-month-day *)
daysFromCivil(year, month, day) ==
    LET y == IF month <= 2 THEN year - 1 ELSE year
        era == y \div 400
        yoe == y - era * 400
        mp == IF month > 2 THEN month - 3 ELSE month + 9
        doy == (153 * mp + 2) \div 5 + day - 1
        doe == yoe * 365 + yoe \div 4 - yoe \div 100 + doy
    IN  era * 146097 + doe - 719468

(* Date.parse of a date-only ISO string "YYYY-MM-DD"; any other string of   *)
(* the model's inputs is no date.                                           *)
dateParse(string) ==
    IF /\ Len(string) = 10
       /\ string[5] = "-"
       /\ string[8] = "-"
       /\ \A i \in {1, 2, 3, 4, 6, 7, 9, 10} : string[i] \in Digits
    THEN LET year == toNumber(SubSeq(string, 1, 4))
             month == toNumber(SubSeq(string, 6, 7))
             day == toNumber(SubSeq(string, 9, 10))
         IN  IF month \in 1..12 /\ day \in 1..31
             THEN ValidDate(daysFromCivil(year, month, day))
             ELSE InvalidDate
    ELSE InvalidDate

(* As if the number of a numeric input were kept as the time value *)
newDateOfRawNumber(value) ==
    CASE value.t = "date" -> ValidDate(value.time)
      [] value.t = "string" -> dateParse(value.string)
      [] value.t = "number" -> ValidDate(value.number)
      [] value.t = "boolean" -> ValidDate(0)
      [] value.t = "null" -> ValidDate(0)
      [] OTHER -> InvalidDate

(* new Date(value).  A number is a count of milliseconds. *)
newDate(value) ==
    CASE value.t = "date" -> ValidDate(value.time)
      [] value.t = "string" -> dateParse(value.string)
      [] value.t = "number" -> ValidDate(value.number \div 86400000)
      [] value.t = "boolean" -> ValidDate(0)
      [] value.t = "null" -> ValidDate(0)
      [] OTHER -> InvalidDate

----------------------------------------------------------------------------
(* The blog schema (zod).  A parser returns the parsed value or the code of *)
(* its issue.                                                               *)

Parsed(value) == [ok |-> TRUE, value |-> value]

Absent == [ok |-> TRUE]

Issue(code) == [ok |-> FALSE, code |-> code]

(* z.string() *)
zString(value) ==
    IF value.t = "string" THEN Parsed(value.string) ELSE Issue("invalid_type")

(* z.coerce.date() *)
zCoerceDate(value) ==
    LET date == newDate(value)
    IN  IF date.valid THEN Parsed(date.time) ELSE Issue("invalid_date")

zBoolean(value) ==
    IF value.t = "boolean" THEN Parsed(value.boolean) ELSE Issue("invalid_type")

(* z.boolean().default(false) *)
zBooleanDefault(value) ==
    IF value.t = "undefined" THEN Parsed(FALSE)
    ELSE IF value.t = "boolean" THEN Parsed(value.boolean)
    ELSE Issue("invalid_type")

zStringArray(value) ==
    IF /\ value.t = "array"
       /\ \A i \in 1..Len(value.items) : value.items[i].t = "string"
    THEN Parsed([i \in 1..Len(value.items) |-> value.items[i].string])
    ELSE Issue("invalid_type")

zStringArrayDefaultEmpty(value) ==
    IF value.t = "undefined" THEN Parsed(<<>>) ELSE zStringArray(value)

(* z.array(z.string()).optional() *)
zStringArrayOptional(value) ==
    IF value.t = "undefined" THEN Absent ELSE zStringArray(value)

(* reference("category"): the id, not looked up in the category collection *)
zReference(value) ==
    IF value.t = "string"
    THEN Parsed([collection |-> "category", id |-> value.string])
    ELSE Issue("invalid_type")

blogSchema(raw) ==
    [title |-> zString(raw.title),
     description |-> zString(raw.description),
     pubDate |-> zCoerceDate(raw.pubDate),
     isDraft |-> zBooleanDefault(raw.isDraft),
     category |-> zReference(raw.category),
     tags |-> zStringArrayOptional(raw.tags)]

(* schema.safeParse(raw): the data, or the issues with the path of each *)
validate(raw) ==
    LET parsed == blogSchema(raw)
        issues == {[path |-> f, code |-> parsed[f].code] :
                       f \in {g \in DOMAIN parsed : ~parsed[g].ok}}
        required == [title |-> parsed.title.value,
                     description |-> parsed.description.value,
                     pubDate |-> parsed.pubDate.value,
                     isDraft |-> parsed.isDraft.value,
                     category |-> parsed.category.value]
    IN  IF issues # {}
        THEN [success |-> FALSE, issues |-> issues]
        ELSE [success |-> TRUE,
              data |-> IF "value" \in DOMAIN parsed.tags
                       THEN required @@ [tags |-> parsed.tags.value]
                       ELSE required]

----------------------------------------------------------------------------
(* The content collections.  An entry of the blog collection is            *)
(* [id, data]; data.tags is optional.  The category collection is what the  *)
(* category loader returns.                                                  *)

Dates == 1..MaxDate

CategoryRefs == {"tech", "scratch", "design", "misc"}

reference(id) == [collection |-> "category", id |-> id]

(* Posts that differ in date, draft flag and category, without tags *)
UntaggedData ==
    [pubDate : Dates, isDraft : BOOLEAN,
     category : {reference(c) : c \in CategoryRefs}]

TagLists ==
    { <<>>, <<TagJs>>, <<TagCss>>, <<TagJs, TagCss>>, <<TagCss, TagJs>>,
      <<TagJs, TagJs>>, <<TagJS>>, <<Tag2>>, <<Tag10, Tag2>>, <<TagJs, Tag2>>,
      <<Tag01, TagJs>>, <<TagConstructor>>, <<TagJs, TagProto>> }

(* Published posts of one category that differ in date and tags *)
TaggedData ==
    [pubDate : Dates, isDraft : {FALSE},
     category : {reference("tech")}, tags : TagLists]

(* Posts, drafts included, with one tag *)
DraftTaggedData ==
    [pubDate : Dates, isDraft : BOOLEAN,
     category : {reference("tech")}, tags : {<<TagJs>>, <<TagCss>>}]

collectionOf(n, data) ==
    [i \in 1..n |-> [id |-> i, data |-> data[i]]]

(* The example scenario of the specification, in every store order *)
ExampleA ==
    [id |-> 1, data |-> [pubDate |-> daysFromCivil(2025, 9, 5), isDraft |-> FALSE,
                         category |-> reference("tech"), tags |-> <<TagJs>>]]
ExampleB ==
    [id |-> 2, data |-> [pubDate |-> daysFromCivil(2025, 9, 3), isDraft |-> FALSE,
                         category |-> reference("tech"),
                         tags |-> <<TagJs, TagCss>>]]
ExampleC ==
    [id |-> 3, data |-> [pubDate |-> daysFromCivil(2025, 9, 1), isDraft |-> FALSE,
                         category |-> reference("design"), tags |-> <<>>]]
ExampleD ==
    [id |-> 4, data |-> [pubDate |-> daysFromCivil(2025, 9, 6), isDraft |-> TRUE,
                         category |-> reference("tech")]]

ExamplePosts == {ExampleA, ExampleB, ExampleC, ExampleD}

ExampleCollections ==
    { s \in [1..4 -> ExamplePosts] : \A i, j \in 1..4 : i # j => s[i] # s[j] }

DataSets == {UntaggedData, TaggedData, DraftTaggedData}

LoadedBlogCollection(collection) ==
    \/ \E DataSet \in DataSets : \E n \in 0..MaxPosts :
           \E data \in [1..n -> DataSet] : collection = collectionOf(n, data)
    \/ collection \in ExampleCollections

getCollection(name) ==
    IF name = "blog" THEN blogCollection ELSE categoryCollection

----------------------------------------------------------------------------
(* The state machine: one build cycle over a loaded content store.  The     *)
(* history variable records, when recording is on, the calls made so far    *)
(* with what each returned.                                                 *)

NoHistory == [recording |-> FALSE, log |-> <<>>, validated |-> <<>>]

Loaded == [status |-> "loaded"]

CallIds == 1..MaxInFlight

Idle == [pc |-> "idle"]

NoneInFlight == [c \in CallIds |-> Idle]

CanCall == ~history.recording \/ Len(history.log) < MaxCalls

Record(name, result) ==
    history' = IF history.recording
               THEN [history EXCEPT !.log = Append(@, [name |-> name,
                                                       result |-> result])]
               ELSE history

Init ==
    /\ LoadedBlogCollection(blogCollection)
    /\ categoryCollection = BLOG_CATEGORIES
    /\ call = "none"
    /\ returned = [status |-> "none"]
    /\ history = NoHistory
    /\ pending = <<>>
    /\ build = Loaded
    /\ frames = NoneInFlight

GetPublishedBlogs ==
    /\ build.status = "loaded"
    /\ CanCall
    /\ call' = "getPublishedBlogs"
    /\ returned' = [status |-> "fulfilled",
                    value |-> getPublishedBlogs(getCollection("blog"))]
    /\ Record("getPublishedBlogs", returned')
    /\ blogCollection' = blogsAfterGetPublishedBlogs(blogCollection)
    /\ UNCHANGED <<categoryCollection, pending, build, frames>>

GetCategoriesWithBlogs ==
    /\ build.status = "loaded"
    /\ CanCall
    /\ call' = "getCategoriesWithBlogs"
    /\ returned' = [status |-> "fulfilled",
                    value |-> getCategoriesWithBlogs(
                                  getPublishedBlogs(getCollection("blog")),
                                  getCollection("category"))]
    /\ Record("getCategoriesWithBlogs", returned')
    /\ blogCollection' = blogsAfterGetPublishedBlogs(blogCollection)
    /\ UNCHANGED <<categoryCollection, pending, build, frames>>

GetTagsWithBlogs ==
    /\ build.status = "loaded"
    /\ CanCall
    /\ call' = "getTagsWithBlogs"
    /\ returned' = getTagsWithBlogs(getPublishedBlogs(getCollection("blog")))
    /\ Record("getTagsWithBlogs", returned')
    /\ blogCollection' = blogsAfterGetPublishedBlogs(blogCollection)
    /\ UNCHANGED <<categoryCollection, pending, build, frames>>

Next == GetPublishedBlogs \/ GetCategoriesWithBlogs \/ GetTagsWithBlogs

Spec == Init /\ [][Next]_vars

(* Repeated calls over one snapshot, with the history recorded *)
SmallBlogCollection(collection) ==
    \/ \E DataSet \in DataSets : \E n \in 0..1 :
           \E data \in [1..n -> DataSet] : collection = collectionOf(n, data)
    \/ collection \in ExampleCollections

InitRepeat ==
    /\ SmallBlogCollection(blogCollection)
    /\ categoryCollection = BLOG_CATEGORIES
    /\ call = "none"
    /\ returned = [status |-> "none"]
    /\ history = [NoHistory EXCEPT !.recording = TRUE]
    /\ pending = <<>>
    /\ build = Loaded
    /\ frames = NoneInFlight

SpecRepeat == InitRepeat /\ [][Next]_vars

----------------------------------------------------------------------------
(* Vocabulary of the properties *)

Published == getPublishedBlogs(blogCollection)

Returned(name) == call = name /\ returned.status = "fulfilled"

Value == returned.value

Position(seq, x) == CHOOSE k \in 1..Len(seq) : seq[k] = x

Members(seq) == {seq[k] : k \in 1..Len(seq)}

RECURSIVE tagTraversal(_)
tagTraversal(blogs) ==
    IF blogs = <<>> THEN <<>>
    ELSE tagsOf(Head(blogs)) \o tagTraversal(Tail(blogs))

FirstOccurrence(seq, x) ==
    CHOOSE k \in 1..Len(seq) : seq[k] = x /\ \A m \in 1..(k - 1) : seq[m] # x

RECURSIVE SumOfLengths(_)
SumOfLengths(groups) ==
    IF groups = <<>> THEN 0
    ELSE Len(Head(groups).blogs) + SumOfLengths(Tail(groups))

Resolves(blog) ==
    \E k \in 1..Len(categoryCollection) :
        categoryCollection[k].id = blog.data.category.id

----------------------------------------------------------------------------
(* The content sync: the raw records of the blog files are validated one   *)
(* by one against the schema; the first record that fails ends the build.   *)

TitleHello == "Hello"

DateString20250905 == <<"2", "0", "2", "5", "-", "0", "9", "-", "0", "5">>
DateString19700102 == <<"1", "9", "7", "0", "-", "0", "1", "-", "0", "2">>
DateStringSoon == <<"s", "o", "o", "n">>
MillisecondsOfDay1 == 86400000

BaseRaw ==
    [title |-> Str(TitleHello), description |-> Str("About"),
     pubDate |-> DateValue(1), isDraft |-> Undefined,
     category |-> Str("tech"), tags |-> Undefined]

RawAlternatives ==
    [title |-> {Str(""), Undefined, Num(7)},
     description |-> {Str(""), Undefined, Bool(TRUE)},
     pubDate |-> {DateValue(d) : d \in Dates \ {1}}
                     \cup {Str(DateString20250905), Str(DateString19700102),
                           Str(DateStringSoon), Null, Undefined, Num(0),
                           Num(MillisecondsOfDay1), Bool(TRUE)},
     isDraft |-> {Bool(TRUE), Bool(FALSE), Str("yes")},
     category |-> {Str("misc"), Undefined, Num(7)},
     tags |-> {Arr(<<>>), Arr(<<Str(TagJs)>>), Arr(<<Num(7)>>), Str("js")}]

(* The base record and the records that differ from it in one field *)
RawRecords ==
    {BaseRaw} \cup UNION { {[BaseRaw EXCEPT ![f] = v] : v \in RawAlternatives[f]} :
                              f \in DOMAIN BaseRaw }

InitBuild ==
    /\ \E n \in 0..MaxPosts : pending \in [1..n -> RawRecords]
    /\ blogCollection = <<>>
    /\ categoryCollection = BLOG_CATEGORIES
    /\ call = "none"
    /\ returned = [status |-> "none"]
    /\ history = NoHistory
    /\ build = IF pending = <<>> THEN Loaded ELSE [status |-> "syncing"]
    /\ frames = NoneInFlight

LoadEntry ==
    /\ build.status = "syncing"
    /\ pending # <<>>
    /\ LET result == validate(Head(pending))
           id == Len(blogCollection) + 1
       IN  /\ history' = [history EXCEPT !.validated =
                              Append(@, [raw |-> Head(pending), result |-> result])]
           /\ IF result.success
              THEN /\ blogCollection' =
                          Append(blogCollection, [id |-> id, data |-> result.data])
                   /\ pending' = Tail(pending)
                   /\ build' = IF pending' = <<>> THEN Loaded ELSE build
              ELSE /\ build' = [status |-> "failed", entry |-> id,
                                issues |-> result.issues]
                   /\ UNCHANGED <<blogCollection, pending>>
    /\ UNCHANGED <<categoryCollection, call, returned, frames>>

NextBuild == LoadEntry \/ Next

SpecBuild == InitBuild /\ [][NextBuild]_vars

----------------------------------------------------------------------------
(* The calls step by step: an async call runs until its next await, and     *)
(* several calls can be in flight.  A frame holds where its call stands,    *)
(* the events of the call so far and, at the end, its result.               *)

FunctionNames ==
    {"getPublishedBlogs", "getCategoriesWithBlogs", "getTagsWithBlogs"}

neverAwaitsCategories(fn) == FALSE

(* const categories = await getCollection("category") *)
awaitsCategories(fn) == fn = "getCategoriesWithBlogs"

(* The call begins: getPublishedBlogs, called directly or first thing by    *)
(* the two other functions, asks for the blog collection and awaits it.     *)
Begin(c, fn) ==
    /\ build.status = "loaded"
    /\ frames[c].pc = "idle"
    /\ frames' = [frames EXCEPT ![c] =
                      [pc |-> "blog", fn |-> fn, events |-> <<"load blog">>]]
    /\ UNCHANGED <<blogCollection, categoryCollection, call, returned,
                   history, pending, build>>

(* The blog collection arrives: getPublishedBlogs filters, sorts and        *)
(* returns.  A caller of getPublishedBlogs is resumed in a later step.      *)
BlogLoaded(c) ==
    /\ frames[c].pc = "blog"
    /\ LET published == getPublishedBlogs(getCollection("blog"))
           events == frames[c].events \o <<"blog loaded", "filter and sort">>
       IN  frames' = [frames EXCEPT ![c] =
               IF frames[c].fn = "getPublishedBlogs"
               THEN [pc |-> "done", fn |-> frames[c].fn, events |-> events,
                     result |-> [status |-> "fulfilled", value |-> published]]
               ELSE [pc |-> "published", fn |-> frames[c].fn,
                     events |-> events, blogs |-> published]]
    /\ blogCollection' = blogsAfterGetPublishedBlogs(blogCollection)
    /\ UNCHANGED <<categoryCollection, call, returned, history, pending, build>>

(* A load of the content store that fails rejects the promise awaited *)
LoadFailed == [status |-> "rejected", reason |-> "load failed"]

(* The blog collection does not arrive: await getCollection("blog") throws  *)
(* in getPublishedBlogs, which has no try, so its promise is rejected.      *)
BlogLoadFailed(c) ==
    /\ frames[c].pc = "blog"
    /\ LET events == Append(frames[c].events, "blog load failed")
       IN  frames' = [frames EXCEPT ![c] =
               IF frames[c].fn = "getPublishedBlogs"
               THEN [pc |-> "done", fn |-> frames[c].fn, events |-> events,
                     result |-> LoadFailed]
               ELSE [pc |-> "published", fn |-> frames[c].fn,
                     events |-> events, error |-> LoadFailed]]
    /\ UNCHANGED <<blogCollection, categoryCollection, call, returned,
                   history, pending, build>>

(* await getPublishedBlogs() resumes: with a rejection, the await throws    *)
(* and the call is rejected; otherwise getCategoriesWithBlogs asks for the  *)
(* category collection and awaits it, and getTagsWithBlogs builds its       *)
(* buckets.                                                                 *)
PublishedResumed(c) ==
    /\ frames[c].pc = "published"
    /\ frames' = [frames EXCEPT ![c] =
           IF "error" \in DOMAIN frames[c]
           THEN [pc |-> "done", fn |-> frames[c].fn,
                 events |-> frames[c].events, result |-> frames[c].error]
           ELSE IF awaitsCategories(frames[c].fn)
           THEN [pc |-> "category", fn |-> frames[c].fn,
                 events |-> Append(frames[c].events, "load category"),
                 blogs |-> frames[c].blogs]
           ELSE IF frames[c].fn = "getCategoriesWithBlogs"
           THEN [pc |-> "done", fn |-> frames[c].fn,
                 events |-> Append(frames[c].events, "group by category"),
                 result |-> [status |-> "fulfilled",
                             value |-> getCategoriesWithBlogs(
                                           frames[c].blogs,
                                           getCollection("category"))]]
           ELSE [pc |-> "done", fn |-> frames[c].fn,
                 events |-> Append(frames[c].events, "group by tag"),
                 result |-> getTagsWithBlogs(frames[c].blogs)]]
    /\ UNCHANGED <<blogCollection, categoryCollection, call, returned,
                   history, pending, build>>

groupsOfNoCategoryAfterFailure(blogs, load) ==
    [status |-> "fulfilled",
     value |-> getCategoriesWithBlogs(
                   blogs, IF load.status = "fulfilled" THEN load.value ELSE <<>>)]

(* const categories = await getCollection("category") and the lines after   *)
(* it: a rejected load throws out of the function, a fulfilled one gives    *)
(* the categories to group by.                                              *)
groupsAfterCategoryLoad(blogs, load) ==
    IF load.status = "fulfilled"
    THEN [status |-> "fulfilled",
          value |-> getCategoriesWithBlogs(blogs, load.value)]
    ELSE load

(* The category collection arrives: the groups are built *)
CategoryLoaded(c) ==
    /\ frames[c].pc = "category"
    /\ frames' = [frames EXCEPT ![c] =
           [pc |-> "done", fn |-> frames[c].fn,
            events |-> frames[c].events
                           \o <<"category loaded", "group by category">>,
            result |-> groupsAfterCategoryLoad(
                           frames[c].blogs,
                           [status |-> "fulfilled",
                            value |-> getCollection("category")])]]
    /\ UNCHANGED <<blogCollection, categoryCollection, call, returned,
                   history, pending, build>>

(* The category collection does not arrive *)
CategoryLoadFailed(c) ==
    /\ frames[c].pc = "category"
    /\ frames' = [frames EXCEPT ![c] =
           [pc |-> "done", fn |-> frames[c].fn,
            events |-> Append(frames[c].events, "category load failed"),
            result |-> groupsAfterCategoryLoad(frames[c].blogs, LoadFailed)]]
    /\ UNCHANGED <<blogCollection, categoryCollection, call, returned,
                   history, pending, build>>

(* The promise of the call settles with the result *)
Settle(c) ==
    /\ frames[c].pc = "done"
    /\ call' = frames[c].fn
    /\ returned' = frames[c].result
    /\ frames' = [frames EXCEPT ![c] = Idle]
    /\ UNCHANGED <<blogCollection, categoryCollection, history, pending, build>>

InitAsync ==
    /\ \/ blogCollection \in ExampleCollections
       \/ \E n \in 0..1 : \E data \in [1..n -> TaggedData] :
              blogCollection = collectionOf(n, data)
    /\ categoryCollection = BLOG_CATEGORIES
    /\ call = "none"
    /\ returned = [status |-> "none"]
    /\ history = NoHistory
    /\ pending = <<>>
    /\ build = Loaded
    /\ frames = NoneInFlight

NextAsync ==
    \E c \in CallIds :
        \/ \E fn \in FunctionNames : Begin(c, fn)
        \/ BlogLoaded(c)
        \/ PublishedResumed(c)
        \/ CategoryLoaded(c)
        \/ Settle(c)

SpecAsync == InitAsync /\ [][NextAsync]_vars

(* The same calls over a content store whose loads can fail *)
NextFailing ==
    \/ NextAsync
    \/ \E c \in CallIds : BlogLoadFailed(c) \/ CategoryLoadFailed(c)

SpecFailing == InitAsync /\ [][NextFailing]_vars

----------------------------------------------------------------------------
(* C1: the sequence returned by getPublishedBlogs contains no post whose    *)
(* isDraft is true.                                                         *)
C1_NoDraftPublished ==
    Returned("getPublishedBlogs") =>
        \A i \in 1..Len(Value) : Value[i].data.isDraft = FALSE

C1_Witness ==
    /\ Returned("getPublishedBlogs")
    /\ Len(Value) >= 1
    /\ \E k \in 1..Len(blogCollection) : blogCollection[k].data.isDraft

(* C2: in the output of getPublishedBlogs the publish date of the post at   *)
(* position i is greater than or equal to that of the post at i+1.          *)
C2_NewestFirst ==
    Returned("getPublishedBlogs") =>
        \A i \in 1..(Len(Value) - 1) :
            Value[i].data.pubDate >= Value[i + 1].data.pubDate

C2_Witness ==
    /\ Returned("getPublishedBlogs")
    /\ Len(Value) >= 2
    /\ \E i, j \in 1..Len(blogCollection) :
           /\ i < j
           /\ ~blogCollection[i].data.isDraft
           /\ ~blogCollection[j].data.isDraft
           /\ blogCollection[i].data.pubDate < blogCollection[j].data.pubDate

(* C3: two published posts with the same publish date appear in the output  *)
(* of getPublishedBlogs in their relative order in the blog collection.     *)
C3_StableSort ==
    Returned("getPublishedBlogs") =>
        \A i, j \in 1..Len(Value) :
            (i < j /\ Value[i].data.pubDate = Value[j].data.pubDate)
                => Position(blogCollection, Value[i])
                       < Position(blogCollection, Value[j])

C3_Witness ==
    /\ Returned("getPublishedBlogs")
    /\ Len(Value) >= 2
    /\ Value[1].data.pubDate = Value[2].data.pubDate

(* C4: getTagsWithBlogs returns its buckets in first-appearance order: the  *)
(* bucket of tag s precedes the bucket of tag t exactly when the first      *)
(* occurrence of s precedes the first occurrence of t in the traversal of   *)
(* the newest-first published list, whatever the tag strings are.           *)
C4_FirstAppearanceOrder ==
    Returned("getTagsWithBlogs") =>
        \A i, j \in 1..Len(Value) :
            i < j <=> FirstOccurrence(tagTraversal(Published), Value[i].tag)
                          < FirstOccurrence(tagTraversal(Published), Value[j].tag)

(* C5: for arbitrary tag strings getTagsWithBlogs completes without error   *)
(* and returns exactly one bucket for each distinct tag string of the       *)
(* published posts.                                                         *)
C5_OneBucketPerTag ==
    call = "getTagsWithBlogs" =>
        /\ returned.status = "fulfilled"
        /\ {Value[i].tag : i \in 1..Len(Value)} = Members(tagTraversal(Published))
        /\ \A i, j \in 1..Len(Value) : Value[i].tag = Value[j].tag => i = j

(* C6: getCategoriesWithBlogs returns exactly one pair per category, in the *)
(* iteration order of the category collection, and a category without a    *)
(* matching published post has its pair with an empty blogs sequence.       *)
C6_OnePairPerCategory ==
    Returned("getCategoriesWithBlogs") =>
        /\ Len(Value) = Len(categoryCollection)
        /\ \A i \in 1..Len(Value) :
               /\ Value[i].category = categoryCollection[i]
               /\ (\A k \in 1..Len(Published) :
                       Published[k].data.category.id # categoryCollection[i].id)
                      => Value[i].blogs = <<>>

C6_Witness ==
    /\ Returned("getCategoriesWithBlogs")
    /\ Value[1].blogs = <<>>
    /\ Value[2].blogs = <<>>
    /\ Len(Value[3].blogs) >= 1

(* C7: the blogs paired with category c are exactly the subsequence of the  *)
(* output of getPublishedBlogs made of the posts whose category id is c's   *)
(* id, in the same relative order.                                          *)
C7_GroupIsSubsequence ==
    Returned("getCategoriesWithBlogs") =>
        \A i \in 1..Len(Value) :
            /\ Members(Value[i].blogs)
                   = {b \in Members(Published) :
                          b.data.category.id = Value[i].category.id}
            /\ \A m, n \in 1..Len(Value[i].blogs) :
                   m < n => Position(Published, Value[i].blogs[m])
                                < Position(Published, Value[i].blogs[n])

C7_Witness ==
    /\ Returned("getCategoriesWithBlogs")
    /\ \E i \in 1..Len(Value) :
           /\ Len(Value[i].blogs) >= 2
           /\ Value[i].blogs # SelectSeq(blogCollection,
                                   LAMBDA b : b.data.category.id = Value[i].category.id)
    /\ \E k \in 1..Len(Published) : Published[k] \notin Members(Value[1].blogs)

(* C8: the sum of the group sizes of getCategoriesWithBlogs is at most the  *)
(* number of published posts, with equality if and only if every published  *)
(* post's category reference is the id of a category of the store.          *)
C8_GroupSizes ==
    Returned("getCategoriesWithBlogs") =>
        /\ SumOfLengths(Value) <= Len(Published)
        /\ SumOfLengths(Value) = Len(Published)
               <=> \A k \in 1..Len(Published) : Resolves(Published[k])

C8_Witness ==
    /\ Returned("getCategoriesWithBlogs")
    /\ SumOfLengths(Value) >= 1
    /\ SumOfLengths(Value) < Len(Published)

(* C9: every bucket of getTagsWithBlogs holds exactly the published posts   *)
(* whose tags contain the bucket's tag, in the newest-first order of        *)
(* getPublishedBlogs; in the example scenario the result is                 *)
(* [{js, [A, B]}, {css, [B]}].                                              *)
C9_BucketContents ==
    Returned("getTagsWithBlogs") =>
        /\ \A i \in 1..Len(Value) :
               /\ Members(Value[i].blogs)
                      = {b \in Members(Published) :
                             Value[i].tag \in Members(tagsOf(b))}
               /\ \A m, n \in 1..Len(Value[i].blogs) :
                      m < n => Position(Published, Value[i].blogs[m])
                                   <= Position(Published, Value[i].blogs[n])
        /\ blogCollection \in ExampleCollections
               => Value = << [tag |-> TagJs, blogs |-> <<ExampleA, ExampleB>>],
                             [tag |-> TagCss, blogs |-> <<ExampleB>>] >>

C9_Witness ==
    /\ Returned("getTagsWithBlogs")
    /\ blogCollection \in ExampleCollections
    /\ blogCollection[1] = ExampleC
    /\ blogCollection[2] = ExampleB
    /\ Len(Value) = 2

(* C10 as stated: with the configured categories and the example posts,     *)
(* getCategoriesWithBlogs returns tech [A, B], design [C], scratch [].      *)
C10_ExampleGroupsAsStated ==
    (Returned("getCategoriesWithBlogs") /\ blogCollection \in ExampleCollections)
        => /\ Len(Value) = 3
           /\ Value[1].category.id = "tech"
           /\ Value[1].blogs = <<ExampleA, ExampleB>>
           /\ Value[2].category.id = "design"
           /\ Value[2].blogs = <<ExampleC>>
           /\ Value[3].category.id = "scratch"
           /\ Value[3].blogs = <<>>

(* C10 amended: with the configured categories and the example posts,       *)
(* getCategoriesWithBlogs returns tech [A, B], scratch [], design [C], the  *)
(* order of BLOG_CATEGORIES.                                                *)
C10_ExampleGroups ==
    (Returned("getCategoriesWithBlogs") /\ blogCollection \in ExampleCollections)
        => /\ Len(Value) = 3
           /\ Value[1].category.id = "tech"
           /\ Value[1].blogs = <<ExampleA, ExampleB>>
           /\ Value[2].category.id = "scratch"
           /\ Value[2].blogs = <<>>
           /\ Value[3].category.id = "design"
           /\ Value[3].blogs = <<ExampleC>>

C10_Witness ==
    /\ Returned("getCategoriesWithBlogs")
    /\ blogCollection \in ExampleCollections
    /\ blogCollection[1] = ExampleD
    /\ Len(Value[1].blogs) = 2

(* C11: over an unchanged snapshot, two calls of the same aggregation       *)
(* function return structurally identical results, whatever calls were      *)
(* made before or in between.                                               *)
C11_SameResultEveryCall ==
    \A i, j \in 1..Len(history.log) :
        history.log[i].name = history.log[j].name
            => history.log[i].result = history.log[j].result

C11_Witness ==
    /\ Len(history.log) = 3
    /\ history.log[1].name = "getTagsWithBlogs"
    /\ history.log[2].name = "getCategoriesWithBlogs"
    /\ history.log[3].name = "getTagsWithBlogs"
    /\ history.log[3].result.status = "fulfilled"
    /\ Len(history.log[3].result.value) = 2

(* C12: a published post whose category id is the id of no category of the *)
(* store is in no group of getCategoriesWithBlogs, which raises no error,   *)
(* and it is still in the output of getPublishedBlogs.                      *)
C12_UnknownCategoryOmitted ==
    \A k \in 1..Len(blogCollection) :
        (~blogCollection[k].data.isDraft /\ ~Resolves(blogCollection[k]))
            => /\ call = "getCategoriesWithBlogs"
                   => /\ returned.status = "fulfilled"
                      /\ \A i \in 1..Len(Value) :
                             blogCollection[k] \notin Members(Value[i].blogs)
               /\ call = "getPublishedBlogs"
                   => /\ returned.status = "fulfilled"
                      /\ blogCollection[k] \in Members(Value)

C12_Witness ==
    /\ Returned("getCategoriesWithBlogs")
    /\ \E k \in 1..Len(blogCollection) :
           ~blogCollection[k].data.isDraft /\ ~Resolves(blogCollection[k])
    /\ Len(Value[1].blogs) = 1

NoPublishedPost ==
    \A k \in 1..Len(blogCollection) : blogCollection[k].data.isDraft

(* C13: with no published post, getPublishedBlogs and getTagsWithBlogs      *)
(* return an empty sequence and every group of getCategoriesWithBlogs has   *)
(* an empty blogs sequence: a present value, never an error.                *)
C13_EmptyResultsAreSequences ==
    (NoPublishedPost /\ call # "none") =>
        /\ returned.status = "fulfilled"
        /\ "value" \in DOMAIN returned
        /\ call \in {"getPublishedBlogs", "getTagsWithBlogs"} => Value = <<>>
        /\ call = "getCategoriesWithBlogs" =>
               /\ Len(Value) = Len(categoryCollection)
               /\ \A i \in 1..Len(Value) :
                      "blogs" \in DOMAIN Value[i] /\ Value[i].blogs = <<>>

C13_Witness ==
    /\ Returned("getTagsWithBlogs")
    /\ NoPublishedPost
    /\ \E k \in 1..Len(blogCollection) : tagsOf(blogCollection[k]) # <<>>
    /\ Value = <<>>

(* C14: tag identity is exact string equality: two tag occurrences of the   *)
(* published posts with different strings always yield two distinct buckets *)
(* of getTagsWithBlogs, and two occurrences of the same string share one.   *)
C14_ExactTagIdentity ==
    call = "getTagsWithBlogs" =>
        LET occurrences == tagTraversal(Published)
            buckets == IF returned.status = "fulfilled" THEN Value ELSE <<>>
        IN  \A p, q \in 1..Len(occurrences) :
                p # q =>
                    \E i, j \in 1..Len(buckets) :
                        /\ buckets[i].tag = occurrences[p]
                        /\ buckets[j].tag = occurrences[q]
                        /\ i = j <=> occurrences[p] = occurrences[q]

(* C15: a post whose raw record has no isDraft field (and is valid          *)
(* otherwise) validates with isDraft false and is in the output of          *)
(* getPublishedBlogs.                                                       *)
C15_DraftDefaultsToFalse ==
    \A i \in 1..Len(history.validated) :
        LET e == history.validated[i]
        IN  (/\ e.raw.isDraft = Undefined
             /\ validate([e.raw EXCEPT !.isDraft = Bool(FALSE)]).success)
                => /\ e.result.success
                   /\ e.result.data.isDraft = FALSE
                   /\ Returned("getPublishedBlogs")
                          => [id |-> i, data |-> e.result.data] \in Members(Value)

C15_Witness ==
    /\ Returned("getPublishedBlogs")
    /\ Len(history.validated) = 2
    /\ history.validated[1].raw.isDraft = Bool(TRUE)
    /\ history.validated[2].raw.isDraft = Undefined
    /\ Len(Value) = 1
    /\ Value[1].id = 2

(* C16 as stated: a post whose raw record has no tags field validates to an *)
(* entity whose tags value is the empty sequence.                           *)
C16_AbsentTagsAreEmptySequence ==
    \A i \in 1..Len(history.validated) :
        LET e == history.validated[i]
        IN  (e.raw.tags = Undefined /\ e.result.success)
                => /\ "tags" \in DOMAIN e.result.data
                   /\ e.result.data.tags = <<>>

(* C16 amended: a post whose raw record has no tags field (and is valid     *)
(* otherwise) validates to an entity that has no tags value (undefined),    *)
(* which getTagsWithBlogs reads as the empty sequence.                      *)
C16_AbsentTagsStayAbsent ==
    \A i \in 1..Len(history.validated) :
        LET e == history.validated[i]
        IN  (/\ e.raw.tags = Undefined
             /\ validate([e.raw EXCEPT !.tags = Arr(<<>>)]).success)
                => /\ e.result.success
                   /\ "tags" \notin DOMAIN e.result.data
                   /\ tagsOf([id |-> i, data |-> e.result.data]) = <<>>

C16_Witness ==
    /\ Returned("getTagsWithBlogs")
    /\ Len(history.validated) = 2
    /\ history.validated[1].raw.tags = Undefined
    /\ history.validated[2].raw.tags = Arr(<<Str(TagJs)>>)
    /\ Len(Value) = 1

(* C17: validation rejects a raw record whose title is the empty string:    *)
(* every validated post has a non-empty title.                              *)
C17_TitleNotEmpty ==
    /\ \A i \in 1..Len(history.validated) :
           history.validated[i].raw.title = Str("")
               => ~history.validated[i].result.success
    /\ \A k \in 1..Len(blogCollection) : blogCollection[k].data.title # ""

RequiredFields == {"title", "description", "pubDate", "category"}

(* A required field that is missing or holds a value of another type than  *)
(* the field's: text for title, description and category; a date, a date    *)
(* string or a timestamp for pubDate.                                       *)
MissingOrWrongType(field, value) ==
    IF field = "pubDate"
    THEN value.t \notin {"date", "string", "number"}
    ELSE value.t # "string"

(* C18: a raw record that lacks a required field or gives it a value of the *)
(* wrong type fails validation as a whole: no entity is produced for it,    *)
(* the failure names the field, and no aggregation result is computed.      *)
C18_RequiredFieldsEnforced ==
    \A i \in 1..Len(history.validated) :
        \A f \in RequiredFields :
            MissingOrWrongType(f, history.validated[i].raw[f])
                => /\ ~history.validated[i].result.success
                   /\ build.status = "failed"
                   /\ \E issue \in build.issues : issue.path = f
                   /\ Len(blogCollection) < i
                   /\ call = "none"

(* C19: no aggregation call changes the content store: the blog and the     *)
(* category collection hold the same entries, with the same field values,   *)
(* in the same order after the call as before it.                           *)
C19_StoreUnchanged ==
    [][/\ blogCollection' = blogCollection
       /\ categoryCollection' = categoryCollection]_vars

C19_Witness ==
    /\ Returned("getPublishedBlogs")
    /\ Len(blogCollection) = 2
    /\ Len(Value) = 2
    /\ Value[1] = blogCollection[2]
    /\ Value[2] = blogCollection[1]

Loads(events) ==
    {k \in 1..Len(events) : events[k] \in {"load blog", "load category"}}

Arrivals(events) ==
    {k \in 1..Len(events) : events[k] \in {"blog loaded", "category loaded"}}

Work(events) ==
    {k \in 1..Len(events) :
        events[k] \in {"filter and sort", "group by category", "group by tag"}}

(* C20 as stated: each aggregation call awaits exactly one load of the      *)
(* content store, and that load is complete before any filtering, sorting   *)
(* or grouping of the call begins.                                          *)
C20_OneLoadBeforeAnyWork ==
    \A c \in CallIds :
        frames[c].pc = "done" =>
            /\ Cardinality(Loads(frames[c].events)) = 1
            /\ \A a \in Arrivals(frames[c].events) :
                   \A w \in Work(frames[c].events) : a < w

(* C20 amended: getPublishedBlogs and getTagsWithBlogs await exactly one    *)
(* load, of the blog collection, complete before their filtering, sorting   *)
(* and grouping; getCategoriesWithBlogs awaits two loads, the blog          *)
(* collection and then, once the published posts are filtered and sorted,   *)
(* the category collection, which is complete before the grouping begins.   *)
C20_LoadsOfEachCall ==
    \A c \in CallIds :
        frames[c].pc = "done" =>
            /\ frames[c].fn = "getPublishedBlogs" =>
                   frames[c].events
                       = <<"load blog", "blog loaded", "filter and sort">>
            /\ frames[c].fn = "getTagsWithBlogs" =>
                   frames[c].events
                       = <<"load blog", "blog loaded", "filter and sort",
                           "group by tag">>
            /\ frames[c].fn = "getCategoriesWithBlogs" =>
                   frames[c].events
                       = <<"load blog", "blog loaded", "filter and sort",
                           "load category", "category loaded",
                           "group by category">>

C20_Witness ==
    /\ frames[1].pc = "done"
    /\ frames[1].fn = "getCategoriesWithBlogs"
    /\ frames[2].pc = "published"
    /\ frames[2].fn = "getTagsWithBlogs"
    /\ blogCollection \in ExampleCollections

Failures(events) ==
    {k \in 1..Len(events) :
        events[k] \in {"blog load failed", "category load failed"}}

(* C21: a call with a failed load of the content store ends rejected, with  *)
(* no value, partial or other; the failure is the last thing the call does: *)
(* nothing is loaded again and nothing is filtered, sorted or grouped after *)
(* it.  For getCategoriesWithBlogs this holds for the blog load and for the *)
(* category load.                                                           *)
C21_FailedLoadRejectsCall ==
    /\ \A c \in CallIds :
           frames[c].pc = "done" /\ Failures(frames[c].events) # {} =>
               /\ frames[c].result = LoadFailed
               /\ Failures(frames[c].events) = {Len(frames[c].events)}
               /\ Cardinality(Loads(frames[c].events))
                      = IF frames[c].events[Len(frames[c].events)]
                               = "blog load failed" THEN 1 ELSE 2
               /\ "group by category" \notin Members(frames[c].events)
               /\ "group by tag" \notin Members(frames[c].events)
    /\ \A c \in CallIds :
           /\ frames[c].pc \in {"published", "category", "done"}
           /\ "blog load failed" \in Members(frames[c].events)
           => "filter and sort" \notin Members(frames[c].events)

C21_Witness ==
    /\ frames[1].pc = "done"
    /\ frames[1].fn = "getCategoriesWithBlogs"
    /\ frames[1].events[Len(frames[1].events)] = "category load failed"
    /\ frames[2].pc = "done"
    /\ frames[2].fn = "getCategoriesWithBlogs"
    /\ frames[2].events[Len(frames[2].events)] = "blog load failed"
    /\ Len(Published) > 0

(* What a call of fn returns when it is the only call: the function of the  *)
(* snapshot, the tag buckets built from an empty map.                       *)
ResultAlone(fn) ==
    IF fn = "getPublishedBlogs"
    THEN [status |-> "fulfilled", value |-> Published]
    ELSE IF fn = "getCategoriesWithBlogs"
    THEN [status |-> "fulfilled",
          value |-> getCategoriesWithBlogs(Published, categoryCollection)]
    ELSE LET final == forEachBlog([tagMap |-> <<>>, threw |-> FALSE], Published)
             entries == ObjectEntries(final.tagMap)
         IN  IF final.threw
             THEN [status |-> "rejected", reason |-> "TypeError"]
             ELSE [status |-> "fulfilled",
                   value |-> [i \in 1..Len(entries) |->
                                 [tag |-> entries[i].key,
                                  blogs |-> entries[i].value]]]

(* C22: with several calls in flight over the same snapshot, their awaits   *)
(* interleaved in any order, every call ends with the result it has when it *)
(* runs alone, and that is the result its caller receives.                  *)
C22_InterleavedCallsAsAlone ==
    /\ \A c \in CallIds :
           frames[c].pc = "done" => frames[c].result = ResultAlone(frames[c].fn)
    /\ call # "none" => returned = ResultAlone(call)

C22_Witness ==
    /\ call = "getTagsWithBlogs"
    /\ returned.status = "fulfilled"
    /\ Len(returned.value) = 2
    /\ frames[1].pc = "done"
    /\ frames[1].fn = "getTagsWithBlogs"
    /\ frames[2].pc = "category"

(* The instant a raw publish date stands for, in days since 1970-01-01 *)
InstantOf(value) ==
    CASE value.t = "date" -> value.time
      [] value.t = "number" -> value.number \div 86400000
      [] value.t = "string" -> dateParse(value.string).time

DateRepresentations == {"date", "number", "string"}

RawPubDateOf(blog) == history.validated[blog.id].raw.pubDate

(* C23: getPublishedBlogs orders the posts by the instant of their publish  *)
(* date, whatever the raw representation (a date, a date string, a number   *)
(* of milliseconds): a post with a later instant comes first, and two posts *)
(* with the same instant stay in store order.                               *)
C23_OrderedByInstant ==
    Returned("getPublishedBlogs") =>
        \A i, j \in 1..Len(Value) :
            /\ i < j
            /\ RawPubDateOf(Value[i]).t \in DateRepresentations
            /\ RawPubDateOf(Value[j]).t \in DateRepresentations
            => \/ InstantOf(RawPubDateOf(Value[i]))
                      > InstantOf(RawPubDateOf(Value[j]))
               \/ /\ InstantOf(RawPubDateOf(Value[i]))
                         = InstantOf(RawPubDateOf(Value[j]))
                  /\ Value[i].id < Value[j].id

C23_Witness ==
    /\ Returned("getPublishedBlogs")
    /\ Len(Value) = 2
    /\ RawPubDateOf(Value[1]) = Num(MillisecondsOfDay1)
    /\ RawPubDateOf(Value[2]) = Str(DateString19700102)
    /\ Value[1].id = 1

NonDrafts == {k \in 1..Len(blogCollection) : ~blogCollection[k].data.isDraft}

(* C24: the output of getPublishedBlogs is a permutation of the non-draft   *)
(* posts of the store: each of them is in it exactly once, and it has as    *)
(* many elements as the store has non-draft posts.                          *)
C24_PermutationOfNonDrafts ==
    Returned("getPublishedBlogs") =>
        /\ Len(Value) = Cardinality(NonDrafts)
        /\ \A k \in NonDrafts :
               Cardinality({i \in 1..Len(Value) : Value[i] = blogCollection[k]})
                   = 1

C24_Witness ==
    /\ Returned("getPublishedBlogs")
    /\ Len(blogCollection) = 2
    /\ NonDrafts = {1, 2}
    /\ blogCollection[1].data = blogCollection[2].data

nonDraftsOf(blogs) == SelectSeq(blogs, LAMBDA b : ~b.data.isDraft)

(* Drafts to put into a snapshot: of any date and category, with tags no    *)
(* published post need have                                                 *)
OtherDrafts ==
    { [id |-> 0, data |-> [pubDate |-> 0, isDraft |-> TRUE,
                           category |-> reference("misc"),
                           tags |-> <<TagCss>>]],
      [id |-> 0, data |-> [pubDate |-> MaxDate + 1, isDraft |-> TRUE,
                           category |-> reference("tech"),
                           tags |-> <<Tag2, TagConstructor>>]] }

(* Snapshots with the non-draft posts of blogs, in the same relative order: *)
(* without any draft, and with a draft put in at any place                  *)
DraftVariants(blogs) ==
    LET kept == nonDraftsOf(blogs)
    IN  {kept} \cup
        { SubSeq(kept, 1, p) \o <<d>> \o SubSeq(kept, p + 1, Len(kept)) :
              p \in 0..Len(kept), d \in OtherDrafts }

(* C25: the drafts of the store have no influence on any result: over any   *)
(* snapshot with the same non-draft posts in the same relative order and    *)
(* the same categories, whatever its drafts, each function returns what it  *)
(* returned over the store; and every bucket's tag is a tag of a non-draft  *)
(* post.                                                                    *)
C25_DraftsHaveNoInfluence ==
    /\ \A other \in DraftVariants(blogCollection) :
           /\ call = "getPublishedBlogs" =>
                  returned = [status |-> "fulfilled",
                              value |-> getPublishedBlogs(other)]
           /\ call = "getCategoriesWithBlogs" =>
                  returned = [status |-> "fulfilled",
                              value |-> getCategoriesWithBlogs(
                                            getPublishedBlogs(other),
                                            categoryCollection)]
           /\ call = "getTagsWithBlogs" =>
                  returned = getTagsWithBlogs(getPublishedBlogs(other))
    /\ Returned("getTagsWithBlogs") =>
           \A i \in 1..Len(Value) :
               \E k \in NonDrafts :
                   Value[i].tag \in Members(tagsOf(blogCollection[k]))

C25_Witness ==
    /\ Returned("getTagsWithBlogs")
    /\ Len(blogCollection) = 2
    /\ blogCollection[1].data.isDraft
    /\ blogCollection[1].data.tags = <<TagCss>>
    /\ ~blogCollection[2].data.isDraft
    /\ Value = << [tag |-> TagJs, blogs |-> <<blogCollection[2]>>] >>

GroupsHolding(blog) ==
    {i \in 1..Len(Value) : blog \in Members(Value[i].blogs)}

Occurrences(seq, x) == Cardinality({k \in 1..Len(seq) : seq[k] = x})

DistinctCategoryIds ==
    \A m, n \in 1..Len(categoryCollection) :
        categoryCollection[m].id = categoryCollection[n].id => m = n

(* C26: the category ids being pairwise distinct, a published post is in at *)
(* most one group of getCategoriesWithBlogs; a post whose category          *)
(* reference resolves is in exactly one group, once, and a post whose       *)
(* reference does not resolve in none.                                      *)
C26_OneGroupPerPost ==
    /\ DistinctCategoryIds
    /\ Returned("getCategoriesWithBlogs") =>
           \A k \in NonDrafts :
               LET blog == blogCollection[k]
               IN  /\ Cardinality(GroupsHolding(blog))
                          = IF Resolves(blog) THEN 1 ELSE 0
                   /\ \A i \in GroupsHolding(blog) :
                          Occurrences(Value[i].blogs, blog) = 1

C26_Witness ==
    /\ Returned("getCategoriesWithBlogs")
    /\ Len(blogCollection) = 2
    /\ NonDrafts = {1, 2}
    /\ Resolves(blogCollection[1])
    /\ ~Resolves(blogCollection[2])
    /\ GroupsHolding(blogCollection[1]) = {2}

(* C27: getTagsWithBlogs returns no empty bucket and no two buckets with    *)
(* the same tag, and as many buckets as the published posts have distinct   *)
(* tag strings.                                                             *)
C27_BucketsAreTheDistinctTags ==
    Returned("getTagsWithBlogs") =>
        /\ \A i \in 1..Len(Value) : Value[i].blogs # <<>>
        /\ \A i, j \in 1..Len(Value) : Value[i].tag = Value[j].tag => i = j
        /\ Len(Value) = Cardinality(Members(tagTraversal(Published)))

C27_Witness ==
    /\ Returned("getTagsWithBlogs")
    /\ Len(Value) = 2
    /\ Len(Value[1].blogs) = 2
    /\ Len(Value[2].blogs) = 2
    /\ tagsOf(Published[1]) # tagsOf(Published[2])

BucketOf(tag) ==
    IF \E i \in 1..Len(Value) : Value[i].tag = tag
    THEN Value[CHOOSE i \in 1..Len(Value) : Value[i].tag = tag].blogs
    ELSE <<>>

(* C28: a published post is in the bucket of tag t as many times as t       *)
(* occurs in the post's tags, at adjacent positions, and the sizes of the   *)
(* buckets add up to the number of tag occurrences of the published posts.  *)
C28_OncePerTagOccurrence ==
    Returned("getTagsWithBlogs") =>
        /\ \A k \in 1..Len(Published) :
               \A t \in Members(tagsOf(Published[k])) :
                   LET bucket == BucketOf(t)
                       places == {m \in 1..Len(bucket) : bucket[m] = Published[k]}
                   IN  /\ Cardinality(places)
                              = Occurrences(tagsOf(Published[k]), t)
                       /\ \A m, n \in places :
                              \A q \in m..n : q \in places
        /\ SumOfLengths(Value) = Len(tagTraversal(Published))

C28_Witness ==
    /\ Returned("getTagsWithBlogs")
    /\ Len(Value) = 1
    /\ Len(Value[1].blogs) = 3
    /\ Value[1].blogs[1] = Value[1].blogs[2]
    /\ Value[1].blogs[3] # Value[1].blogs[2]

Untagged(blog) == "tags" \notin DOMAIN blog.data \/ blog.data.tags = <<>>

(* C29: a published post whose validated tags are absent or the empty       *)
(* sequence is in the output of getPublishedBlogs and in the group of its   *)
(* category, and getTagsWithBlogs ends as it does over the published posts  *)
(* without that post: the post is in no bucket and raises no error.         *)
C29_UntaggedPostOnlyLacksBuckets ==
    \A k \in NonDrafts :
        LET blog == blogCollection[k]
        IN  Untagged(blog) =>
                /\ call = "getTagsWithBlogs" =>
                       /\ returned = getTagsWithBlogs(
                                         SelectSeq(Published,
                                                   LAMBDA b : b # blog))
                       /\ returned.status = "fulfilled" =>
                              \A i \in 1..Len(Value) :
                                  blog \notin Members(Value[i].blogs)
                /\ Returned("getPublishedBlogs") => blog \in Members(Value)
                /\ Returned("getCategoriesWithBlogs") /\ Resolves(blog) =>
                       \E i \in 1..Len(Value) :
                           /\ Value[i].category.id = blog.data.category.id
                           /\ blog \in Members(Value[i].blogs)

C29_Witness ==
    /\ Returned("getTagsWithBlogs")
    /\ Len(blogCollection) = 2
    /\ "tags" \notin DOMAIN blogCollection[1].data
    /\ ~blogCollection[1].data.isDraft
    /\ Value = << [tag |-> TagJs, blogs |-> <<blogCollection[2]>>] >>

====
